---------------------------- MODULE Spec2Model ----------------------------
(***************************************************************************)
(* Model of model/render.py: the decoder of reMarkable .rm stroke files    *)
(* (_render_rm_file) and the two document entry points (pdf, notebook).    *)
(*                                                                         *)
(* Numbers.  Python floats are modelled as exact rationals <<n, d>> in     *)
(* lowest terms with d > 0.  The raw widths, pressures, tilts and          *)
(* positions of the inputs are dyadic and the page sizes are multiples of  *)
(* 12, so that the widths, ratios and points the program computes in       *)
(* binary floating point are these rationals exactly.                      *)
(*                                                                         *)
(* Exceptions.  The function abort is defined nowhere in the program: the  *)
(* two calls of it raise NameError.  No function catches an exception      *)
(* except the bare except of the hex color parse.                          *)
(*                                                                         *)
(* Files.  A file is [exists, len, header, words]: len is the byte length, *)
(* header the first 43 bytes and words the complete 4-byte little-endian   *)
(* words that follow, each given by the number it encodes.                 *)
(*                                                                         *)
(* Optional values.  None is <<>> and a present value x is <<x>>.          *)
(***************************************************************************)
EXTENDS Integers, Sequences, FiniteSets, TLC

\* ------------------------------------------------------------------------
\* Bounds of the model
\* ------------------------------------------------------------------------
MaxLayers == 2

MaxStrokes == 2

MaxSegments == 2

MaxPages == 3

\* ------------------------------------------------------------------------
\* Exact rational arithmetic (the program's float arithmetic)
\* ------------------------------------------------------------------------
Abs(n) == IF n < 0 THEN -n ELSE n

RECURSIVE GCD(_, _)
GCD(a, b) == IF b = 0 THEN a ELSE GCD(b, a % b)

Frac(n, d) ==
    LET g == GCD(Abs(n), Abs(d))
        s == IF d < 0 THEN -1 ELSE 1
    IN  <<(s * n) \div g, (s * d) \div g>>

R(n) == <<n, 1>>

RAdd(a, b) == Frac(a[1] * b[2] + b[1] * a[2], a[2] * b[2])

RSub(a, b) == Frac(a[1] * b[2] - b[1] * a[2], a[2] * b[2])

RMul(a, b) == Frac(a[1] * b[1], a[2] * b[2])

RDiv(a, b) == Frac(a[1] * b[2], a[2] * b[1])

RLess(a, b) == a[1] * b[2] < b[1] * a[2]

RMax(a, b) == IF RLess(a, b) THEN b ELSE a

None == <<>>

Some(x) == <<x>>

\* ------------------------------------------------------------------------
\* Program constants
\* ------------------------------------------------------------------------
DEFAULT_IMAGE_WIDTH == 1404

DEFAULT_IMAGE_HEIGHT == 1872

Color(r, g, b, alpha) == [red |-> r, green |-> g, blue |-> b, alpha |-> alpha]

default_stroke_color ==
    [c \in 0..4 |->
        CASE c = 0 -> Color(Frac(48, 255), Frac(63, 255), Frac(159, 255), R(1))
          [] c = 1 -> Color(Frac(211, 255), Frac(47, 255), Frac(47, 255), R(1))
          [] c = 2 -> Color(R(1), R(1), R(1), R(1))
          [] c = 3 -> Color(R(1), R(1), R(0), Frac(1, 4))
          [] c = 4 -> Color(Frac(97, 255), Frac(97, 255), Frac(97, 255), R(1))]

expected_header_v3 == "reMarkable .lines file, version=3          "

expected_header_v5 == "reMarkable .lines file, version=5          "

\* ------------------------------------------------------------------------
\* struct: formats are sequences of field codes, "43s" (43 bytes), "I"
\* (unsigned 32 bit) and "f" (32 bit float)
\* ------------------------------------------------------------------------
FieldSize(code) == IF code = "43s" THEN Len(expected_header_v5) ELSE 4

RECURSIVE CalcSize(_)
CalcSize(fmt) ==
    IF fmt = <<>> THEN 0 ELSE FieldSize(Head(fmt)) + CalcSize(Tail(fmt))

FmtHeader == <<"43s", "I">>

FmtCount == <<"I">>

FmtStrokeV3 == <<"I", "I", "I", "f", "I">>

FmtStrokeV5 == <<"I", "I", "I", "f", "f", "I">>

FmtSegment == <<"f", "f", "f", "f", "f", "f">>

\* struct.unpack_from raises struct.error unless the buffer holds the record
CanUnpack(fmt, data, offset) == offset + CalcSize(fmt) <= data.len

\* the k-th value of struct.unpack_from(fmt, data, offset)
Field(fmt, data, offset, k) ==
    LET at == offset + CalcSize(SubSeq(fmt, 1, k - 1))
        w == data.words[(at - Len(expected_header_v5)) \div 4 + 1]
    IN  CASE fmt[k] = "43s" -> data.header
          [] fmt[k] = "I" -> w[1] \div w[2]
          [] fmt[k] = "f" -> w


\* ------------------------------------------------------------------------
\* Layer names and colour parsing.  A string is a sequence of characters.
\* ------------------------------------------------------------------------
Upper == <<"A", "B", "C", "D", "E", "F", "G", "H", "I", "J", "K", "L", "M",
           "N", "O", "P", "Q", "R", "S", "T", "U", "V", "W", "X", "Y", "Z">>

Lowercase == <<"a", "b", "c", "d", "e", "f", "g", "h", "i", "j", "k", "l", "m",
               "n", "o", "p", "q", "r", "s", "t", "u", "v", "w", "x", "y", "z">>

\* str.lower()
Lower(s) ==
    [i \in 1..Len(s) |->
        IF \E k \in 1..26 : Upper[k] = s[i]
        THEN Lowercase[CHOOSE k \in 1..26 : Upper[k] = s[i]]
        ELSE s[i]]

Whitespace == {" ", "\t", "\n"}

\* re.search(r"#([^\s]+)", name): the text matched, None when nothing matches
ReSearch(name) ==
    LET starts == {i \in 1..(Len(name) - 1) :
                      name[i] = "#" /\ name[i + 1] \notin Whitespace}
    IN  IF starts = {} THEN None
        ELSE LET b == CHOOSE i \in starts : \A j \in starts : i <= j
                 stops == {j \in b..Len(name) :
                              j = Len(name) \/ name[j + 1] \in Whitespace}
                 e == CHOOSE j \in stops : \A k \in stops : j <= k
             IN  Some(SubSeq(name, b, e))

HexDigits == <<"0", "1", "2", "3", "4", "5", "6", "7", "8", "9",
               "a", "b", "c", "d", "e", "f">>

HexValue(c) == (CHOOSE k \in 1..16 : HexDigits[k] = c) - 1

\* int(val, 16) raises ValueError unless val is a non-empty run of hex digits
IsHex(val) ==
    /\ val # <<>>
    /\ \A i \in 1..Len(val) : \E k \in 1..16 : HexDigits[k] = val[i]

\* (int(val, 16) >> shift) & 0xFF, read off the digits of val
HexByte(val, shift) ==
    LET lo == Len(val) - shift \div 4
        d(i) == IF i >= 1 THEN HexValue(val[i]) ELSE 0
    IN  16 * d(lo - 1) + d(lo)

\* reportlab colors.HexColor(val, hasAlpha) for val = "#...": None stands for
\* the ValueError it raises
HexColor(val, hasAlpha) ==
    LET v == Tail(val)
    IN  IF ~IsHex(v) THEN None
        ELSE IF hasAlpha
             THEN Some(Color(Frac(HexByte(v, 24), 255), Frac(HexByte(v, 16), 255),
                             Frac(HexByte(v, 8), 255), Frac(HexByte(v, 0), 255)))
             ELSE Some(Color(Frac(HexByte(v, 16), 255), Frac(HexByte(v, 8), 255),
                             Frac(HexByte(v, 0), 255), R(1)))

\* reportlab colors.getAllNamedColors(), the entries the layer names use
color_names ==
    {<< <<"r", "e", "d">>, Color(R(1), R(0), R(0), R(1)) >>,
     << <<"b", "l", "u", "e">>, Color(R(0), R(0), R(1), R(1)) >>,
     << <<"b", "l", "a", "c", "k">>, Color(R(0), R(0), R(0), R(1)) >>}

InColorNames(code) == \E e \in color_names : e[1] = code

NamedColor(code) == (CHOOSE e \in color_names : e[1] = code)[2]

\* One iteration of the loop over the metadata layers, for python index l.
\* st is [colors, exc]: the layer_colors list and the exception that left
\* the loop, if any.
LayerColorStep(st, l, name) ==
    LET matches == ReSearch(name)
        color_code == Lower(matches[1])
        has_alpha == Len(color_code) > 7
        hex == HexColor(color_code, has_alpha)
        inRange == l < Len(st.colors)
        stored(c) == [st EXCEPT !.colors[l + 1] = Some(c)]
        name_code == Tail(color_code)
    IN  IF matches = None THEN st
        ELSE IF hex # None /\ inRange THEN stored(hex[1])
        \* a ValueError of HexColor and an IndexError of the assignment in
        \* the try block are both swallowed by the bare except
        ELSE IF ~InColorNames(name_code) THEN st
        ELSE IF inRange THEN stored(NamedColor(name_code))
        ELSE [st EXCEPT !.exc = Some([type |-> "IndexError", line |-> 231])]

RECURSIVE LayerColorLoop(_, _, _)
LayerColorLoop(st, layers, l) ==
    IF l >= Len(layers) \/ st.exc # None THEN st
    ELSE LayerColorLoop(LayerColorStep(st, l, layers[l + 1]), layers, l + 1)

\* layer_colors after lines 206-233, for a metadata file [exists, layers]
LoadLayerColors(nlayers, meta) ==
    LET start == [colors |-> [l \in 1..nlayers |-> None], exc |-> None]
    IN  IF meta.exists THEN LayerColorLoop(start, meta.layers, 0) ELSE start


\* ------------------------------------------------------------------------
\* Stroke styles and geometry (pure parts of _render_rm_file)
\* ------------------------------------------------------------------------
\* line 171, a mistaken form: the comparison the wrong way round
IsLandscapeInverted(width0, height0) == RLess(width0, height0)

\* line 171
IsLandscape(width0, height0) == RLess(height0, width0)

\* lines 171-185: the page layout and the scale ratio
Layout(width0, height0, crop0) ==
    LET is_landscape == IsLandscape(width0, height0)
        w1 == IF is_landscape THEN height0 ELSE width0
        h1 == IF is_landscape THEN width0 ELSE height0
        crop_box == IF crop0 = None THEN <<R(0), R(0), w1, h1>> ELSE crop0[1]
        \* landscape, lines 179-181
        lw == RSub(crop_box[3], crop_box[1])
        lh == RMax(h1, RDiv(RMul(lw, R(DEFAULT_IMAGE_HEIGHT)),
                            R(DEFAULT_IMAGE_WIDTH)))
        \* portrait, lines 183-185
        ph == RSub(crop_box[4], crop_box[2])
        pw == RMax(w1, RDiv(RMul(ph, R(DEFAULT_IMAGE_WIDTH)),
                            R(DEFAULT_IMAGE_HEIGHT)))
    IN  [is_landscape |-> is_landscape,
         crop_box |-> crop_box,
         image_width |-> IF is_landscape THEN lw ELSE pw,
         image_height |-> IF is_landscape THEN lh ELSE ph,
         ratio |-> IF is_landscape THEN RDiv(lh, R(DEFAULT_IMAGE_HEIGHT))
                   ELSE RDiv(pw, R(DEFAULT_IMAGE_WIDTH))]

\* line 200, a mistaken form: the layer count is not looked at
HeaderRejectedAnyCount(header, n) ==
    header # expected_header_v3 /\ header # expected_header_v5

\* line 200: the header is rejected
HeaderRejected(header, n) ==
    LET v3 == (header = expected_header_v3)
        v5 == (header = expected_header_v5)
    IN  (~v3 /\ ~v5) \/ n < 1

\* line 273
BallpointWidth(w) ==
    RAdd(RSub(RMul(RMul(R(32), w), w), RMul(R(116), w)), R(107))

\* line 275, a mistaken form: the constant added
MarkerWidthSignSlip(w) == RAdd(RMul(R(64), w), R(112))

\* line 275
MarkerWidth(w) == RSub(RMul(R(64), w), R(112))

\* line 282
EraserWidth(w) ==
    RAdd(RSub(RMul(RMul(R(1280), w), w), RMul(R(4800), w)), R(4510))

\* line 285, a mistaken form: the constant added
PencilWidthSignSlip(w) == RAdd(RMul(R(16), w), R(27))

\* line 285
PencilWidth(w) == RSub(RMul(R(16), w), R(27))

\* lines 252-291: color, pen_width and opacity of a stroke
Style(pen0, color0, pen_width0) ==
    LET is_highlighter == (pen0 = 5 \/ pen0 = 18)
        is_eraser == pen0 = 6
        is_eraser_area == pen0 = 8
        is_sharp_pencil == (pen0 = 7 \/ pen0 = 13)
        is_tilt_pencil == (pen0 = 1 \/ pen0 = 14)
        is_marker == (pen0 = 3 \/ pen0 = 16)
        is_ballpoint == (pen0 = 2 \/ pen0 = 15)
        is_fineliner == (pen0 = 4 \/ pen0 = 17)
        is_brush == (pen0 = 0 \/ pen0 = 12)
        color1 == IF is_sharp_pencil \/ is_tilt_pencil THEN 4 ELSE color0
        w == pen_width0
        st(c, pw, o) == [color |-> c, pen_width |-> pw, opacity |-> o]
    IN  IF is_brush THEN st(color1, w, R(1))
        ELSE IF is_ballpoint \/ is_fineliner
        THEN st(color1, BallpointWidth(w), R(1))
        ELSE IF is_marker
        THEN st(color1, MarkerWidth(w), Frac(9, 10))
        ELSE IF is_highlighter THEN st(3, R(30), Frac(2, 10))
        ELSE IF is_eraser
        THEN st(2, EraserWidth(w), R(1))
        ELSE IF is_sharp_pencil \/ is_tilt_pencil
        THEN st(color1, PencilWidth(w), Frac(9, 10))
        ELSE IF is_eraser_area THEN st(color1, w, R(0))
        ELSE st(color1, w, R(0))

\* lines 300-303, a mistaken form: the first formula for every tool
SegmentWidthOneFormula(pen0, pw, pressure, tilt, r) ==
    RMul(RDiv(RAdd(RMul(R(6), pw), RMul(R(2), pressure)), R(8)), r)

\* lines 300-303: the line width at one segment
SegmentWidth(pen0, pw, pressure, tilt, r) ==
    LET is_ballpoint == (pen0 = 2 \/ pen0 = 15)
        is_brush == (pen0 = 0 \/ pen0 = 12)
    IN  IF is_ballpoint \/ is_brush
        THEN RMul(RDiv(RAdd(RMul(R(6), pw), RMul(R(2), pressure)), R(8)), r)
        ELSE RMul(RDiv(RAdd(RAdd(RMul(R(5), pw), RMul(R(2), tilt)),
                            RMul(R(1), pressure)), R(8)), r)

\* lines 305-306: the position of one segment on the page
SegmentPoint(xpos, ypos, r, height, crop) ==
    <<RAdd(RMul(r, xpos), crop[1]),
      RAdd(RSub(height, RMul(r, ypos)), crop[2])>>

\* line 308: strokes that are read and not drawn
Skipped(pen0) == pen0 = 8 \/ pen0 = 6

\* lines 320-328: the path of a stroke, as the calls made on it
RECURSIVE PathOps(_, _)
PathOps(pts, i) ==
    IF i >= Len(pts) THEN << <<"close">> >>
    ELSE <<<<"lineTo", pts[i + 1], pts[i + 2]>>,
           <<"moveTo", pts[i + 1], pts[i + 2]>>>>
         \o (IF i % 10 = 0 THEN << <<"close">> >> ELSE <<>>)
         \o PathOps(pts, i + 2)


\* ------------------------------------------------------------------------
\* Inputs: stroke files, metadata files and page geometries
\* ------------------------------------------------------------------------
NoFile == [exists |-> FALSE, len |-> 0, header |-> "", words |-> <<>>]

NoMeta == [exists |-> FALSE, layers |-> <<>>]

EncodeSegment(g) == <<g.x, g.y, R(0), g.pressure, g.tilt, R(0)>>

RECURSIVE EncodeSegments(_)
EncodeSegments(gs) ==
    IF gs = <<>> THEN <<>>
    ELSE EncodeSegment(Head(gs)) \o EncodeSegments(Tail(gs))

\* a stroke record in the layout of FmtStrokeV3 or FmtStrokeV5
EncodeStroke(version, s) ==
    <<R(s.pen), R(s.color), R(0), s.pen_width>>
    \o (IF version = 5 THEN <<R(0)>> ELSE <<>>)
    \o <<R(Len(s.segments))>>
    \o EncodeSegments(s.segments)

RECURSIVE EncodeStrokes(_, _)
EncodeStrokes(version, ss) ==
    IF ss = <<>> THEN <<>>
    ELSE EncodeStroke(version, Head(ss)) \o EncodeStrokes(version, Tail(ss))

RECURSIVE EncodeLayers(_, _)
EncodeLayers(version, ls) ==
    IF ls = <<>> THEN <<>>
    ELSE <<R(Len(Head(ls)))>> \o EncodeStrokes(version, Head(ls))
         \o EncodeLayers(version, Tail(ls))

\* the file with the given header whose layers are ls
RmFile(header, version, ls) ==
    LET words == <<R(Len(ls))>> \o EncodeLayers(version, ls)
    IN  [exists |-> TRUE,
         len |-> Len(expected_header_v5) + 4 * Len(words),
         header |-> header,
         words |-> words]

\* the first n bytes of a file
Truncate(f, n) ==
    LET whole == IF n <= Len(expected_header_v5) THEN 0
                 ELSE (n - Len(expected_header_v5)) \div 4
    IN  [exists |-> TRUE, len |-> n, header |-> f.header,
         words |-> SubSeq(f.words, 1, whole)]

HeaderOf(version) ==
    IF version = 3 THEN expected_header_v3 ELSE expected_header_v5

Min(a, b) == IF a < b THEN a ELSE b

PenIds == 0..19

RawWidths == {R(0), Frac(1, 2), R(1), R(2)}

SegmentPalette ==
    <<[x |-> R(0), y |-> R(0), pressure |-> R(0), tilt |-> R(0)],
      [x |-> R(702), y |-> R(936), pressure |-> R(1), tilt |-> Frac(1, 2)],
      [x |-> R(1404), y |-> R(1872), pressure |-> Frac(1, 2), tilt |-> R(1)]>>

\* n segments, taken in turn from the palette starting at s
Segments(n, s) ==
    [i \in 1..n |-> SegmentPalette[((s + i - 2) % Len(SegmentPalette)) + 1]]

Stroke(pen0, color0, w, segs) ==
    [pen |-> pen0, color |-> color0, pen_width |-> w, segments |-> segs]

\* one layer, one stroke: every pen, raw width and segment list
StyleFiles ==
    {RmFile(HeaderOf(v), v,
            << <<Stroke(p, c, w, Segments(n, s))>> >>) :
        v \in {3, 5}, p \in PenIds, c \in {0, 1}, w \in RawWidths,
        n \in 0..MaxSegments, s \in 1..Len(SegmentPalette)}

StrokePalette ==
    <<Stroke(0, 0, R(2), Segments(Min(2, MaxSegments), 1)),
      Stroke(6, 0, R(2), Segments(1, 2)),
      Stroke(5, 1, R(2), Segments(MaxSegments, 3)),
      Stroke(9, 1, R(1), Segments(1, 1)),
      Stroke(8, 0, R(2), Segments(MaxSegments, 2)),
      Stroke(16, 1, Frac(1, 2), Segments(1, 3)),
      Stroke(14, 0, R(2), Segments(0, 1))>>

\* the stroke counts of the layers of a file
LayerCounts ==
    UNION {[1..n -> 0..MaxStrokes] : n \in 1..MaxLayers}

RECURSIVE CountBefore(_, _)
CountBefore(counts, l) ==
    IF l <= 1 THEN 0 ELSE counts[l - 1] + CountBefore(counts, l - 1)

\* the layers with the given stroke counts, the strokes taken in turn from
\* the palette starting at k
LayersOf(counts, k) ==
    [l \in 1..Len(counts) |->
        [j \in 1..counts[l] |->
            StrokePalette[((k + CountBefore(counts, l) + j - 2)
                           % Len(StrokePalette)) + 1]]]

\* several layers and strokes
StructFiles ==
    {RmFile(HeaderOf(v), v, LayersOf(counts, k)) :
        v \in {3, 5}, counts \in LayerCounts, k \in 1..Len(StrokePalette)}

BadHeaders ==
    {"reMarkable .lines file, version=4          ",
     "reMarkable lines with selections and layers"}

Prefixes(f) == {Truncate(f, n) : n \in 0..(f.len - 1)}

\* rejected headers, and every proper prefix of two well-formed files
MalformedFiles ==
    {RmFile(h, 5, LayersOf(<<1>>, 1)) : h \in BadHeaders}
    \cup {RmFile(HeaderOf(v), v, <<>>) : v \in {3, 5}}
    \cup UNION {Prefixes(RmFile(HeaderOf(v), v, LayersOf(<<1, 1>>, 1))) :
                    v \in {3, 5}}

Chars(n) ==
    CASE n = 1 -> <<"L", "a", "y", "e", "r", " ", "1">>
      [] n = 2 -> <<"#", "f", "f", "0", "0", "0", "0">>
      [] n = 3 -> <<"i", "n", "k", " ", "#", "0", "0", "F", "F", "0", "0", "8", "0">>
      [] n = 4 -> <<"#", "r", "e", "d">>
      [] n = 5 -> <<"#", "z", "z">>
      [] n = 6 -> <<"#", " ", "x">>
      [] n = 7 -> <<"#", "B", "l", "u", "e", " ", "p", "e", "n">>

MetaOf(names) ==
    [exists |-> TRUE, layers |-> [i \in 1..Len(names) |-> Chars(names[i])]]

Metas ==
    {NoMeta, MetaOf(<<1>>), MetaOf(<<2, 1>>), MetaOf(<<3, 4>>),
     MetaOf(<<5, 6>>), MetaOf(<<1, 1, 7>>), MetaOf(<<6, 3, 2>>)}

\* the arguments image_width, image_height, crop_box of _render_rm_file
Geometry(w, h, crop) == [image_width |-> R(w), image_height |-> R(h), crop_box |-> crop]

Box(a, b, c, d) == Some(<<R(a), R(b), R(c), R(d)>>)

DefaultGeometry == Geometry(DEFAULT_IMAGE_WIDTH, DEFAULT_IMAGE_HEIGHT, None)

Geometries ==
    {DefaultGeometry,
     Geometry(1872, 1404, None),
     Geometry(2808, 1404, None),
     Geometry(702, 1404, None),
     Geometry(1404, 1872, Box(12, 24, 1392, 1848)),
     Geometry(1872, 1404, Box(0, 0, 2106, 1404))}


\* ------------------------------------------------------------------------
\* State
\* ------------------------------------------------------------------------
VARIABLES
    entry,            \* the function called: "render", "pdf" or "notebook"
    disk,             \* per page, the stroke file and its metadata file
    base_pdf,         \* per page, the boxes of the original pdf (pdf)
    templates,        \* per page, whether its template image exists (notebook)
    dpc,              \* position in pdf or notebook
    page_nr,          \* page_nr of pdf, p of notebook
    annotations_pdf,  \* the list annotations_pdf
    output,           \* the files written, None before
    args,             \* the arguments of the call of _render_rm_file
    pc,               \* position in _render_rm_file
    is_landscape, image_width, image_height, crop_box, ratio,
    data, offset, is_v3, is_v5, nlayers,
    layer_colors,
    layer, nstrokes, stroke,
    pen, color, pen_width, opacity, nsegments,
    segment, points, width,
    can,              \* the strokes drawn on the canvas, in order
    overlay,          \* the value returned, None before
    exc               \* the exception raised, None before

inputVars == <<entry, disk, base_pdf, templates>>

docVars == <<dpc, page_nr, annotations_pdf, output>>

layoutVars == <<is_landscape, image_width, image_height, crop_box, ratio>>

headerVars == <<data, is_v3, is_v5, nlayers>>

strokeVars == <<pen, color, pen_width, opacity, nsegments>>

segmentVars == <<segment, points, width>>

vars == <<inputVars, docVars, args, pc, layoutVars, headerVars, offset,
          layer_colors, layer, nstrokes, stroke, strokeVars, segmentVars,
          can, overlay, exc>>

\* the locals of _render_rm_file before the function assigns them
FreshFrame ==
    /\ is_landscape = FALSE
    /\ image_width = R(0)
    /\ image_height = R(0)
    /\ crop_box = <<R(0), R(0), R(0), R(0)>>
    /\ ratio = R(0)
    /\ data = NoFile
    /\ offset = 0
    /\ is_v3 = FALSE
    /\ is_v5 = FALSE
    /\ nlayers = 0
    /\ layer_colors = <<>>
    /\ layer = 0
    /\ nstrokes = 0
    /\ stroke = 0
    /\ pen = 0
    /\ color = 0
    /\ pen_width = R(0)
    /\ opacity = R(0)
    /\ nsegments = 0
    /\ segment = 0
    /\ points = <<>>
    /\ width = <<>>
    /\ can = <<>>
    /\ overlay = None
    /\ exc = None

RenderInputs ==
    (StyleFiles \X {NoMeta} \X Geometries)
    \cup (StructFiles \X Metas \X {DefaultGeometry})
    \cup (MalformedFiles \X {NoMeta} \X {DefaultGeometry})

\* a call _render_rm_file(rm_file_name, image_width, image_height, crop_box)
Init ==
    /\ entry = "render"
    /\ \E i \in RenderInputs :
         /\ disk = <<[rm |-> i[1], meta |-> i[2]]>>
         /\ args = [page |-> 0, image_width |-> i[3].image_width,
                    image_height |-> i[3].image_height,
                    crop_box |-> i[3].crop_box]
    /\ base_pdf = <<>>
    /\ templates = <<>>
    /\ dpc = "render"
    /\ page_nr = 0
    /\ annotations_pdf = <<>>
    /\ output = None
    /\ pc = "layout"
    /\ FreshFrame

\* ------------------------------------------------------------------------
\* _render_rm_file
\* ------------------------------------------------------------------------
Raise(type, line) ==
    /\ pc' = "raised"
    /\ exc' = Some([type |-> type, line |-> line])

\* lines 171-185
RenderLayout ==
    /\ pc = "layout"
    /\ LET l == Layout(args.image_width, args.image_height, args.crop_box)
       IN  /\ is_landscape' = l.is_landscape
           /\ image_width' = l.image_width
           /\ image_height' = l.image_height
           /\ crop_box' = l.crop_box
           /\ ratio' = l.ratio
    /\ pc' = "open"
    /\ UNCHANGED <<inputVars, docVars, args, headerVars, offset, layer_colors,
                   layer, nstrokes, stroke, strokeVars, segmentVars, can,
                   overlay, exc>>

\* lines 188-202
ReadHeader ==
    /\ pc = "open"
    /\ LET f == disk[args.page + 1].rm
           n == Field(FmtHeader, f, 0, 2)
           header == Field(FmtHeader, f, 0, 1)
       IN  IF ~f.exists
           THEN /\ Raise("FileNotFoundError", 188)
                /\ UNCHANGED <<headerVars, offset>>
           ELSE IF f.len < Len(expected_header_v5) + 4
           \* abort is not defined: calling it raises NameError
           THEN /\ Raise("NameError", 194)
                /\ data' = f
                /\ UNCHANGED <<is_v3, is_v5, nlayers, offset>>
           ELSE /\ data' = f
                /\ offset' = offset + CalcSize(FmtHeader)
                /\ is_v3' = (header = expected_header_v3)
                /\ is_v5' = (header = expected_header_v5)
                /\ nlayers' = n
                /\ IF HeaderRejected(header, n)
                   THEN Raise("NameError", 201)
                   ELSE pc' = "meta" /\ UNCHANGED exc
    /\ UNCHANGED <<inputVars, docVars, args, layoutVars, layer_colors, layer,
                   nstrokes, stroke, strokeVars, segmentVars, can, overlay>>

\* lines 204-238
LoadMetadata ==
    /\ pc = "meta"
    /\ LET r == LoadLayerColors(nlayers, disk[args.page + 1].meta)
       IN  /\ layer_colors' = r.colors
           /\ IF r.exc # None
              THEN pc' = "raised" /\ exc' = r.exc
              ELSE pc' = "layer" /\ UNCHANGED exc
    /\ UNCHANGED <<inputVars, docVars, args, layoutVars, headerVars, offset,
                   layer, nstrokes, stroke, strokeVars, segmentVars, can,
                   overlay>>

\* lines 239-241: the next layer, or the end of the loop over the layers
NextLayer ==
    /\ pc = "layer"
    /\ IF layer >= nlayers
       THEN pc' = "save" /\ UNCHANGED <<offset, nstrokes, stroke, exc>>
       ELSE IF ~CanUnpack(FmtCount, data, offset)
       THEN Raise("struct.error", 241) /\ UNCHANGED <<offset, nstrokes, stroke>>
       ELSE /\ nstrokes' = Field(FmtCount, data, offset, 1)
            /\ offset' = offset + CalcSize(FmtCount)
            /\ stroke' = 0
            /\ pc' = "stroke"
            /\ UNCHANGED exc
    /\ UNCHANGED <<inputVars, docVars, args, layoutVars, headerVars,
                   layer_colors, layer, strokeVars, segmentVars, can, overlay>>

\* lines 244-294: the next stroke header, or the end of the layer
NextStroke ==
    /\ pc = "stroke"
    /\ LET fmt == IF is_v3 THEN FmtStrokeV3 ELSE FmtStrokeV5
           st == Style(Field(fmt, data, offset, 1), Field(fmt, data, offset, 2),
                       Field(fmt, data, offset, 4))
       IN  IF stroke >= nstrokes
           THEN /\ layer' = layer + 1
                /\ pc' = "layer"
                /\ UNCHANGED <<offset, strokeVars, segmentVars, exc>>
           ELSE IF ~CanUnpack(fmt, data, offset)
           THEN /\ Raise("struct.error", IF is_v3 THEN 247 ELSE 250)
                /\ UNCHANGED <<offset, layer, strokeVars, segmentVars>>
           ELSE /\ pen' = Field(fmt, data, offset, 1)
                /\ nsegments' = Field(fmt, data, offset, Len(fmt))
                /\ offset' = offset + CalcSize(fmt)
                /\ color' = st.color
                /\ pen_width' = st.pen_width
                /\ opacity' = st.opacity
                /\ segment' = 0
                /\ points' = <<>>
                /\ width' = <<>>
                /\ pc' = "segment"
                /\ UNCHANGED <<layer, exc>>
    /\ UNCHANGED <<inputVars, docVars, args, layoutVars, headerVars,
                   layer_colors, nstrokes, stroke, can, overlay>>

\* lines 296-307: one segment
ReadSegment ==
    /\ pc = "segment"
    /\ segment < nsegments
    /\ IF ~CanUnpack(FmtSegment, data, offset)
       THEN Raise("struct.error", 298) /\ UNCHANGED <<offset, segmentVars>>
       ELSE LET xpos == Field(FmtSegment, data, offset, 1)
                ypos == Field(FmtSegment, data, offset, 2)
                pressure == Field(FmtSegment, data, offset, 4)
                tilt == Field(FmtSegment, data, offset, 5)
            IN  /\ offset' = offset + CalcSize(FmtSegment)
                /\ width' = Append(width, SegmentWidth(pen, pen_width, pressure,
                                                       tilt, ratio))
                /\ points' = points \o SegmentPoint(xpos, ypos, ratio,
                                                    image_height, crop_box)
                /\ segment' = segment + 1
                /\ UNCHANGED <<pc, exc>>
    /\ UNCHANGED <<inputVars, docVars, args, layoutVars, headerVars,
                   layer_colors, layer, nstrokes, stroke, strokeVars, can,
                   overlay>>

\* lines 308-309: a stroke that is not drawn
SkipStroke ==
    /\ pc = "segment"
    /\ segment >= nsegments
    /\ Skipped(pen)
    /\ stroke' = stroke + 1
    /\ pc' = "stroke"
    /\ UNCHANGED <<inputVars, docVars, args, layoutVars, headerVars, offset,
                   layer_colors, layer, nstrokes, strokeVars, segmentVars, can,
                   overlay, exc>>

\* lines 311-329: the stroke is drawn.  The entry of can records the stroke
\* it comes from (layer, stroke, pen) and the calls made on the canvas.
DrawStroke ==
    /\ pc = "segment"
    /\ segment >= nsegments
    /\ ~Skipped(pen)
    /\ IF layer_colors[layer + 1] = None /\ color \notin DOMAIN default_stroke_color
       THEN Raise("KeyError", 316) /\ UNCHANGED <<can, stroke>>
       ELSE IF points = <<>>
       THEN Raise("IndexError", 321) /\ UNCHANGED <<can, stroke>>
       ELSE /\ can' = Append(can,
                        [layer |-> layer, stroke |-> stroke, pen |-> pen,
                         lineCap |-> 1,
                         strokeColor |->
                            IF layer_colors[layer + 1] = None
                            THEN default_stroke_color[color]
                            ELSE layer_colors[layer + 1][1],
                         lineWidth |-> width,
                         path |-> << <<"moveTo", points[1], points[2]>> >>
                                  \o PathOps(points, 0)])
            /\ stroke' = stroke + 1
            /\ pc' = "stroke"
            /\ UNCHANGED exc
    /\ UNCHANGED <<inputVars, docVars, args, layoutVars, headerVars, offset,
                   layer_colors, layer, nstrokes, strokeVars, segmentVars,
                   overlay>>

\* the pages of the pdf the canvas saves: a canvas nothing was drawn on saves
\* no page (both callers test for an overlay without pages)
CanvasPages(drawn, w, h) ==
    IF drawn = <<>> THEN <<>>
    ELSE <<[mbox |-> <<w, h>>, content |-> drawn, Rotate |-> 0]>>

\* lines 331-339
Save ==
    /\ pc = "save"
    /\ LET pages == CanvasPages(can, image_width, image_height)
       IN  overlay' = Some([pages |->
                [i \in 1..Len(pages) |->
                    IF is_landscape THEN [pages[i] EXCEPT !.Rotate = 90]
                    ELSE pages[i]]])
    /\ pc' = "done"
    /\ UNCHANGED <<inputVars, docVars, args, layoutVars, headerVars, offset,
                   layer_colors, layer, nstrokes, stroke, strokeVars,
                   segmentVars, can, exc>>

Render ==
    \/ RenderLayout
    \/ ReadHeader
    \/ LoadMetadata
    \/ NextLayer
    \/ NextStroke
    \/ ReadSegment
    \/ SkipStroke
    \/ DrawStroke
    \/ Save

Next == Render

Spec == Init /\ [][Next]_vars

\* ------------------------------------------------------------------------
\* Documents: the inputs of pdf and notebook
\* ------------------------------------------------------------------------
InkFile == RmFile(expected_header_v5, 5, LayersOf(<<1>>, 1))

ErasedFile == RmFile(expected_header_v3, 3, LayersOf(<<1>>, 2))

Portrait == Box(0, 0, DEFAULT_IMAGE_WIDTH, DEFAULT_IMAGE_HEIGHT)

Landscape == Box(0, 0, DEFAULT_IMAGE_HEIGHT, DEFAULT_IMAGE_WIDTH)

Page(rm, meta, media, art, crop, tpl) ==
    [rm |-> rm, meta |-> meta, MediaBox |-> media, ArtBox |-> art,
     CropBox |-> crop, template |-> tpl]

\* the kinds of page of a document: the files of the page on disk, its boxes
\* in the original pdf and whether its notebook template exists
PageKinds ==
    {Page(NoFile, NoMeta, Portrait, None, None, TRUE),
     Page(InkFile, NoMeta, Portrait, None, None, TRUE),
     Page(InkFile, MetaOf(<<2>>), Landscape, None, Landscape, FALSE),
     Page(ErasedFile, NoMeta, Portrait, None, Portrait, TRUE),
     Page(RmFile("reMarkable .lines file, version=4          ", 5,
                 LayersOf(<<1>>, 1)), NoMeta, Portrait, None, None, TRUE),
     Page(Truncate(InkFile, InkFile.len - 5), NoMeta, Portrait, None, None, FALSE),
     Page(InkFile, NoMeta, None, None, None, TRUE),
     Page(InkFile, NoMeta, None, Portrait, None, TRUE)}

Documents == UNION {[1..n -> PageKinds] : n \in 1..MaxPages}

\* a call pdf(...) or notebook(...) on a document
InitDoc ==
    /\ entry \in {"pdf", "notebook"}
    /\ \E d \in Documents :
         /\ disk = [i \in 1..Len(d) |-> [rm |-> d[i].rm, meta |-> d[i].meta]]
         /\ base_pdf = [i \in 1..Len(d) |->
                           [MediaBox |-> d[i].MediaBox, ArtBox |-> d[i].ArtBox,
                            CropBox |-> d[i].CropBox]]
         /\ templates = [i \in 1..Len(d) |-> d[i].template]
    /\ dpc = IF entry = "pdf" THEN "pdf_loop" ELSE "nb_loop"
    /\ page_nr = 0
    /\ annotations_pdf = <<>>
    /\ output = None
    /\ args = [page |-> 0, image_width |-> R(0), image_height |-> R(0),
               crop_box |-> None]
    /\ pc = "idle"
    /\ FreshFrame

\* os.path.exists(rm_file) for page number n
RmExists(n) == n < Len(disk) /\ disk[n + 1].rm.exists

\* a call of _render_rm_file starts with a new frame
Call(a) ==
    /\ args' = a
    /\ pc' = "layout"
    /\ is_landscape' = FALSE
    /\ image_width' = R(0)
    /\ image_height' = R(0)
    /\ crop_box' = <<R(0), R(0), R(0), R(0)>>
    /\ ratio' = R(0)
    /\ data' = NoFile
    /\ offset' = 0
    /\ is_v3' = FALSE
    /\ is_v5' = FALSE
    /\ nlayers' = 0
    /\ layer_colors' = <<>>
    /\ layer' = 0
    /\ nstrokes' = 0
    /\ stroke' = 0
    /\ pen' = 0
    /\ color' = 0
    /\ pen_width' = R(0)
    /\ opacity' = R(0)
    /\ nsegments' = 0
    /\ segment' = 0
    /\ points' = <<>>
    /\ width' = <<>>
    /\ can' = <<>>
    /\ overlay' = None
    /\ exc' = None

\* ------------------------------------------------------------------------
\* pdf
\* ------------------------------------------------------------------------
\* lines 45-62: one turn of the loop over the pages, up to the call
PdfPage ==
    /\ dpc = "pdf_loop"
    /\ LET box == base_pdf[page_nr + 1]
           page_layout == IF box.MediaBox = None THEN box.ArtBox
                          ELSE box.MediaBox
       IN  IF page_nr >= Len(base_pdf)
           THEN /\ dpc' = "pdf_merge"
                /\ UNCHANGED <<page_nr, annotations_pdf, args, pc, layoutVars,
                               headerVars, offset, layer_colors, layer, nstrokes,
                               stroke, strokeVars, segmentVars, can, overlay, exc>>
           ELSE IF ~RmExists(page_nr) \/ page_layout = None
           THEN /\ annotations_pdf' = Append(annotations_pdf, None)
                /\ page_nr' = page_nr + 1
                /\ UNCHANGED <<dpc, args, pc, layoutVars, headerVars, offset,
                               layer_colors, layer, nstrokes, stroke, strokeVars,
                               segmentVars, can, overlay, exc>>
           ELSE /\ Call([page |-> page_nr,
                         image_width |-> page_layout[1][3],
                         image_height |-> page_layout[1][4],
                         crop_box |-> box.CropBox])
                /\ dpc' = "pdf_call"
                /\ UNCHANGED <<page_nr, annotations_pdf>>
    /\ UNCHANGED <<inputVars, output>>

\* lines 63-67: the overlay returned for the page
PdfReturn ==
    /\ dpc = "pdf_call"
    /\ pc = "done"
    /\ annotations_pdf' =
          Append(annotations_pdf,
                 IF Len(overlay[1].pages) <= 0 THEN None
                 ELSE Some(overlay[1].pages[1]))
    /\ page_nr' = page_nr + 1
    /\ dpc' = "pdf_loop"
    /\ pc' = "idle"
    /\ UNCHANGED <<inputVars, output, args, layoutVars, headerVars, offset,
                   layer_colors, layer, nstrokes, stroke, strokeVars,
                   segmentVars, can, overlay, exc>>

\* line 62: pdf catches nothing, an exception of the call leaves pdf
PdfRaise ==
    /\ dpc = "pdf_call"
    /\ pc = "raised"
    /\ dpc' = "raised"
    /\ pc' = "idle"
    /\ UNCHANGED <<inputVars, page_nr, annotations_pdf, output, args,
                   layoutVars, headerVars, offset, layer_colors, layer, nstrokes,
                   stroke, strokeVars, segmentVars, can, overlay, exc>>

\* lines 70-83: the two files written
PdfMerge ==
    /\ dpc = "pdf_merge"
    /\ LET full == [i \in 1..Len(base_pdf) |->
                       [page |-> i - 1, annotation |-> annotations_pdf[i]]]
           annotated(pg) == pg.annotation # None
       IN  output' = Some([full |-> full, oap |-> SelectSeq(full, annotated)])
    /\ dpc' = "done"
    /\ UNCHANGED <<inputVars, page_nr, annotations_pdf, args, pc, layoutVars,
                   headerVars, offset, layer_colors, layer, nstrokes, stroke,
                   strokeVars, segmentVars, can, overlay, exc>>

\* ------------------------------------------------------------------------
\* notebook
\* ------------------------------------------------------------------------
\* lines 92-99: one turn of the loop over the stroke files, up to the call
NotebookPage ==
    /\ dpc = "nb_loop"
    /\ IF ~RmExists(page_nr)
       THEN /\ dpc' = "nb_write"
            /\ UNCHANGED <<args, pc, layoutVars, headerVars, offset,
                           layer_colors, layer, nstrokes, stroke, strokeVars,
                           segmentVars, can, overlay, exc>>
       ELSE /\ Call([page |-> page_nr,
                     image_width |-> R(DEFAULT_IMAGE_WIDTH),
                     image_height |-> R(DEFAULT_IMAGE_HEIGHT),
                     crop_box |-> None])
            /\ dpc' = "nb_call"
    /\ UNCHANGED <<inputVars, page_nr, annotations_pdf, output>>

\* lines 100-101
NotebookReturn ==
    /\ dpc = "nb_call"
    /\ pc = "done"
    /\ annotations_pdf' = Append(annotations_pdf, overlay[1])
    /\ page_nr' = page_nr + 1
    /\ dpc' = "nb_loop"
    /\ pc' = "idle"
    /\ UNCHANGED <<inputVars, output, args, layoutVars, headerVars, offset,
                   layer_colors, layer, nstrokes, stroke, strokeVars,
                   segmentVars, can, overlay, exc>>

\* line 99: notebook catches nothing either
NotebookRaise ==
    /\ dpc = "nb_call"
    /\ pc = "raised"
    /\ dpc' = "raised"
    /\ pc' = "idle"
    /\ UNCHANGED <<inputVars, page_nr, annotations_pdf, output, args,
                   layoutVars, headerVars, offset, layer_colors, layer, nstrokes,
                   stroke, strokeVars, segmentVars, can, overlay, exc>>

\* lines 104-129: one page per line of the pagedata file, blank or template,
\* and the overlays merged on the pages of the same index
NotebookWrite ==
    /\ dpc = "nb_write"
    /\ LET merged == {i \in 1..Len(annotations_pdf) :
                         Len(annotations_pdf[i].pages) > 0}
       IN  IF \E i \in merged : i > Len(templates)
           THEN /\ dpc' = "raised"
                /\ exc' = Some([type |-> "IndexError", line |-> 123])
                /\ UNCHANGED output
           ELSE /\ output' =
                     Some([full |->
                        [i \in 1..Len(templates) |->
                            [page |-> i - 1,
                             background |-> IF templates[i] THEN "template"
                                            ELSE "blank",
                             annotation |->
                                IF i \in merged
                                THEN Some(annotations_pdf[i].pages[1])
                                ELSE None]]])
                /\ dpc' = "done"
                /\ UNCHANGED exc
    /\ UNCHANGED <<inputVars, page_nr, annotations_pdf, args, pc, layoutVars,
                   headerVars, offset, layer_colors, layer, nstrokes, stroke,
                   strokeVars, segmentVars, can, overlay>>

NextDoc ==
    \/ Render
    \/ PdfPage
    \/ PdfReturn
    \/ PdfRaise
    \/ PdfMerge
    \/ NotebookPage
    \/ NotebookReturn
    \/ NotebookRaise
    \/ NotebookWrite

SpecDoc == InitDoc /\ [][NextDoc]_vars


\* ------------------------------------------------------------------------
\* Properties
\* ------------------------------------------------------------------------
RLeq(a, b) == ~RLess(b, a)

InUnitRange(x) == RLeq(R(0), x) /\ RLeq(x, R(1))

\* the 4-byte word at byte offset off of a file
WordAt(d, off) == d.words[(off - 43) \div 4 + 1]

\* the header of the file is one the format accepts
Accepted(d) ==
    /\ d.exists
    /\ d.len >= 47
    /\ d.header \in {expected_header_v3, expected_header_v5}
    /\ WordAt(d, 43)[1] >= 1

StrokeHeaderBytes(d) == IF d.header = expected_header_v3 THEN 20 ELSE 24

\* the offset after n stroke records that start at off, -1 when the file
\* ends before
RECURSIVE StrokesEnd(_, _, _)
StrokesEnd(d, off, n) ==
    IF n = 0 THEN off
    ELSE IF off + StrokeHeaderBytes(d) > d.len THEN -1
    ELSE StrokesEnd(d,
                    off + StrokeHeaderBytes(d)
                    + 24 * WordAt(d, off + StrokeHeaderBytes(d) - 4)[1],
                    n - 1)

RECURSIVE LayersEnd(_, _, _)
LayersEnd(d, off, n) ==
    IF n = 0 \/ off < 0 THEN off
    ELSE IF off + 4 > d.len THEN -1
    ELSE LayersEnd(d, StrokesEnd(d, off + 4, WordAt(d, off)[1]), n - 1)

\* the bytes after the header are exactly the records the counts declare
ExactFile(d) == Accepted(d) /\ LayersEnd(d, 47, WordAt(d, 43)[1]) = d.len

\* where the header of the current stroke and its i-th segment start
StrokeStart == offset - 24 * segment - StrokeHeaderBytes(data)

SegmentStart(i) == offset - 24 * (segment - i + 1)

RawPen == WordAt(data, StrokeStart)[1]

RawColor == WordAt(data, StrokeStart + 4)[1]

RawWidth == WordAt(data, StrokeStart + 12)

RawX(i) == WordAt(data, SegmentStart(i))

RawY(i) == WordAt(data, SegmentStart(i) + 4)

RawPressure(i) == WordAt(data, SegmentStart(i) + 12)

RawTilt(i) == WordAt(data, SegmentStart(i) + 16)

KnownPens == (0..8) \cup (12..18)

Highlighters == {5, 18}

\* C1: a file with an accepted header whose bytes are exactly the records its
\* counts declare (here decoded without a metadata file) is decoded to the
\* end, and the final offset is the length of the file.
C1_ExactFileDecodes ==
    (pc \in {"done", "raised"} /\ ExactFile(data) /\ ~disk[args.page + 1].meta.exists)
        => (pc = "done" /\ offset = data.len)

\* the decode of the current page failed on the header or on truncated data
FormatFailure ==
    /\ exc # None
    /\ exc[1].type \in {"NameError", "struct.error"}

\* C2: when the decode of a page fails with a format error, pdf goes on: it
\* records no annotation for that page and does not end with the error.
C2_FormatErrorIsLocal ==
    (entry = "pdf" /\ FormatFailure /\ pc = "idle")
        => /\ dpc # "raised"
           /\ Len(annotations_pdf) > args.page
           /\ annotations_pdf[args.page + 1] = None

\* C3: once the header has been looked at, the decode has ended with the
\* error of a rejected header exactly when the tag is not one of the two
\* tags or the layer count is below 1 (or the file is too short), and then
\* nothing after the header has been read and nothing is produced.
C3_HeaderValidation ==
    pc \notin {"layout", "open", "idle"}
        => /\ (pc = "raised" /\ exc[1].type = "NameError") <=> ~Accepted(data)
           /\ ~Accepted(data)
                => /\ offset <= 47
                   /\ layer_colors = <<>>
                   /\ nstrokes = 0
                   /\ nsegments = 0
                   /\ can = <<>>
                   /\ overlay = None

C3_Witness ==
    /\ pc = "raised"
    /\ exc[1].line = 201
    /\ data.header = expected_header_v5
    /\ nlayers = 0
    /\ offset = 47

\* C4: no stroke of an eraser, eraser-area or unknown tool is among the drawn
\* paths, and the opacity of eraser-area and unknown strokes is 0.
C4_ExcludedNeverDrawn ==
    /\ \A i \in 1..Len(can) : can[i].pen \in KnownPens \ {6, 8}
    /\ (pc = "segment" /\ pen \notin KnownPens \ {8}) => opacity = R(0)

\* C5 as stated: every point of a highlighter stroke has width 30 * ratio.
C5_HighlighterConstantWidth ==
    (pc = "segment" /\ pen \in Highlighters)
        => /\ color = 3
           /\ opacity = Frac(1, 5)
           /\ \A i \in 1..Len(width) : width[i] = RMul(R(30), ratio)

\* C5, amended: a highlighter stroke has color index 3 and opacity 0.2; the
\* width of its i-th point is (5 * 30 + 2 * tilt + pressure) / 8 * ratio; and
\* a highlighter stroke with at least one segment gives one drawn path, with
\* these widths and the color of index 3 (or the color of its layer).
C5_HighlighterBlendedWidth ==
    /\ (pc \in {"segment", "stroke"} /\ (pc = "stroke" => stroke >= 1)
        /\ pen \in Highlighters)
          => /\ color = 3
             /\ opacity = Frac(1, 5)
    /\ (pc = "segment" /\ pen \in Highlighters)
          => \A i \in 1..Len(width) :
                width[i] = RMul(RDiv(RAdd(RAdd(R(150), RMul(R(2), RawTilt(i))),
                                          RawPressure(i)), R(8)), ratio)
    /\ (pc = "stroke" /\ stroke >= 1 /\ pen \in Highlighters)
          => /\ nsegments >= 1
             /\ Cardinality({i \in 1..Len(can) :
                       can[i].layer = layer /\ can[i].stroke = stroke - 1}) = 1
             /\ LET e == can[Len(can)]
                IN  /\ e.layer = layer /\ e.stroke = stroke - 1 /\ e.pen = pen
                    /\ e.lineWidth = width
                    /\ Len(e.lineWidth) = nsegments
                    /\ e.strokeColor =
                          IF layer_colors[layer + 1] = None
                          THEN default_stroke_color[3]
                          ELSE layer_colors[layer + 1][1]

C5_Witness ==
    /\ pc = "stroke"
    /\ stroke = 1
    /\ pen = 18
    /\ nsegments = 2
    /\ ratio = Frac(3, 4)
    /\ Len(can) = 1
    /\ width[2] # RMul(R(30), ratio)

\* the style table: <<base width, opacity, color index>> for a tool
\* identifier p, raw width w and raw color index c
StyleTable(p, w, c) ==
    LET sq == RMul(w, w)
    IN  CASE p \in {0, 12} -> <<w, R(1), c>>
          [] p \in {2, 15, 4, 17} ->
                <<RAdd(RSub(RMul(R(32), sq), RMul(R(116), w)), R(107)), R(1), c>>
          [] p \in {3, 16} -> <<RSub(RMul(R(64), w), R(112)), Frac(9, 10), c>>
          [] p \in {5, 18} -> <<R(30), Frac(2, 10), 3>>
          [] p = 6 ->
                <<RAdd(RSub(RMul(R(1280), sq), RMul(R(4800), w)), R(4510)), R(1), 2>>
          [] p \in {7, 13, 1, 14} -> <<RSub(RMul(R(16), w), R(27)), Frac(9, 10), 4>>
          [] OTHER -> <<w, R(0), c>>

\* C6: whatever the layer, the place of the stroke, the strokes before it
\* and the version of the file, the base width, opacity and color index of
\* a decoded stroke are those of the style table for its tool identifier
\* and raw width.
C6_StyleIsTable ==
    pc = "segment"
        => /\ pen = RawPen
           /\ <<pen_width, opacity, color>> = StyleTable(RawPen, RawWidth, RawColor)

C6_Witness ==
    /\ pc = "segment"
    /\ layer = 1
    /\ stroke = 1
    /\ pen = 16
    /\ is_v3
    /\ Len(can) >= 2
    /\ pen_width = R(-80)

\* C7: when pdf or notebook has ended, every page that has a stroke file has
\* its result at its own index, also after a page without stroke file; the
\* output holds the pages in order, and in pdf the full output holds every
\* page and the annotated-only output the pages that have annotations.
C7_OneResultPerPage ==
    dpc = "done"
        => /\ \A n \in 0..(Len(disk) - 1) :
                 RmExists(n) => n < Len(annotations_pdf)
           /\ \A i \in 1..Len(output[1].full) : output[1].full[i].page = i - 1
           /\ entry = "pdf"
                => /\ Len(output[1].full) = Len(base_pdf)
                   /\ \A i \in 1..Len(base_pdf) :
                         annotations_pdf[i] # None
                            <=> \E k \in 1..Len(output[1].oap) :
                                   output[1].oap[k].page = i - 1

\* raw width, and pressure and tilt of the segments read, are in [0, 1]
DeviceRange ==
    /\ pc = "segment"
    /\ InUnitRange(RawWidth)
    /\ \A i \in 1..segment : InUnitRange(RawPressure(i)) /\ InUnitRange(RawTilt(i))
    /\ RLess(R(0), ratio)

WidthsNonNegative ==
    /\ RLeq(R(0), pen_width)
    /\ \A i \in 1..Len(width) : RLeq(R(0), width[i])

WidthsNegative ==
    /\ RLess(pen_width, R(0))
    /\ \A i \in 1..Len(width) : RLess(width[i], R(0))

\* C8 as stated: in the device range the widths of every tool without a
\* quadratic formula are non-negative.
C8_NonNegativeUnlessQuadratic ==
    (DeviceRange /\ pen \notin {2, 15, 4, 17, 6}) => WidthsNonNegative

\* C8, amended: in the device range the widths are non-negative for every
\* tool except marker, sharp-pencil and tilt-pencil, whose linear formulas
\* make them negative; those of the quadratic formulas are non-negative.
C8_NegativeOnlyForLinear ==
    DeviceRange
        => IF pen \in {3, 16, 7, 13, 1, 14} THEN WidthsNegative
           ELSE WidthsNonNegative

C8_Witness ==
    /\ DeviceRange
    /\ pen = 3
    /\ RawWidth = R(1)
    /\ segment = 2
    /\ RLess(width[2], R(0))

\* C9: resolving the layer colors of a metadata file never ends the decode.
C9_MetadataNeverAborts ==
    pc = "raised" => exc[1].line \notin 204..233

\* C10: the page is landscape exactly when the width given exceeds the
\* height given; then the width given is used as height, the ratio is the
\* layout height / 1872 and every page of the overlay is rotated by 90;
\* otherwise the ratio is the layout width / 1404 and no page is rotated;
\* and the ratio scales x, y and the width of every segment.
C10_Geometry ==
    pc \notin {"layout", "idle"}
        => /\ is_landscape = RLess(args.image_height, args.image_width)
           /\ is_landscape
                => /\ ratio = RDiv(image_height, R(1872))
                   /\ image_width = RSub(crop_box[3], crop_box[1])
                   /\ image_height =
                         RMax(args.image_width,
                              RDiv(RMul(image_width, R(1872)), R(1404)))
                   /\ args.crop_box = None
                        => crop_box = <<R(0), R(0), args.image_height,
                                        args.image_width>>
           /\ ~is_landscape
                => /\ ratio = RDiv(image_width, R(1404))
                   /\ image_height = RSub(crop_box[4], crop_box[2])
                   /\ image_width =
                         RMax(args.image_width,
                              RDiv(RMul(image_height, R(1404)), R(1872)))
                   /\ args.crop_box = None
                        => crop_box = <<R(0), R(0), args.image_width,
                                        args.image_height>>
           /\ pc = "segment"
                => \A i \in 1..Len(width) :
                      /\ points[2 * i - 1] = RAdd(RMul(ratio, RawX(i)), crop_box[1])
                      /\ points[2 * i] =
                            RAdd(RSub(image_height, RMul(ratio, RawY(i))),
                                 crop_box[2])
                      /\ width[i] =
                            RMul(IF pen \in {0, 12, 2, 15}
                                 THEN RDiv(RAdd(RMul(R(6), pen_width),
                                                RMul(R(2), RawPressure(i))), R(8))
                                 ELSE RDiv(RAdd(RAdd(RMul(R(5), pen_width),
                                                     RMul(R(2), RawTilt(i))),
                                                RawPressure(i)), R(8)),
                                 ratio)
           /\ pc = "done"
                => /\ \A i \in 1..Len(overlay[1].pages) :
                         overlay[1].pages[i].Rotate = IF is_landscape THEN 90 ELSE 0
                   /\ can # <<>> => Len(overlay[1].pages) = 1

C10_Witness ==
    /\ pc = "done"
    /\ is_landscape
    /\ args.image_width = R(2808)
    /\ ratio = Frac(3, 2)
    /\ Len(overlay[1].pages) = 1
    /\ overlay[1].pages[1].Rotate = 90
    /\ Len(can[1].lineWidth) = 2

=============================================================================
